---------------------------- MODULE Spec2Model ----------------------------
(***************************************************************************)
(* A model of the Free-Money scraper:                                      *)
(*   src/app/services/scraper_core.py                                      *)
(*       analyze_opportunity_with_ai, FinancialScraper._is_valid_link,     *)
(*       discover_seed_urls, process_links_with_ai, _fetch_and_analyze,    *)
(*       main                                                              *)
(*   src/app/services/term_generator/dynamic_query_builder.py              *)
(*       DynamicQueryBuilder.__init__, expand_queries,                     *)
(*       _fetch_related_for_query                                          *)
(*                                                                         *)
(* A Python str is a sequence of one-character strings, so that lower(),   *)
(* startswith(), split() and the "in" substring test are computed and not  *)
(* assumed.  An Optional[...] value is <<>> (None) or <<v>>.               *)
(***************************************************************************)
EXTENDS Integers, Sequences, FiniteSets, TLC

VARIABLES
    \* ---- FinancialScraper._is_valid_link, called on its own
    url,                 \* the argument
    link_called,         \* whether the call has returned
    valid,               \* the returned bool
    \* ---- analyze_opportunity_with_ai, called on its own
    text_tag,            \* how text_content was built (word, length, place)
    text_content,        \* the argument text_content
    source_url,          \* the argument source_url
    cls_called,          \* whether the call has returned
    opportunity,         \* the returned Optional[MockOpportunity]
    \* ---- main: discovery, fan-out, ranking
    pc,                  \* where main() is
    failsafe_urls,       \* the configured FAILSAFE_URLS list
    provider,            \* the scripted answers of the search provider, or <<>>
    qi,                  \* place in SEARCH_QUERIES of the next query
    issued,              \* places of the queries passed to ddgs.text so far
    all_links,           \* discover_seed_urls: all_links
    seed_urls,           \* main: seed_urls
    tasks,               \* process_links_with_ai: the urls in task order
    task,                \* per url: the state and result of its task
    all_processed_opps,  \* main: all_processed_opps
    final_opportunities, \* main: final_opportunities
    \* ---- DynamicQueryBuilder
    exp_pc,              \* where expand_queries() is
    initial_queries,     \* self.initial_queries
    expanded_queries,    \* self.expanded_queries
    exp_task,            \* per seed: its task awaits the page, or how it ended
    related,             \* per seed: the scripted answer of client.get, or <<>>
    returned             \* the elements of the list expand_queries returned

linkVars == <<url, link_called, valid>>
clsVars  == <<text_tag, text_content, source_url, cls_called, opportunity>>
discVars == <<failsafe_urls, provider, qi, issued, all_links, seed_urls>>
taskVars == <<tasks, task>>
rankVars == <<all_processed_opps, final_opportunities>>
mainVars == <<pc, discVars, taskVars, rankVars>>
expVars  == <<exp_pc, initial_queries, expanded_queries, exp_task, related,
               returned>>
vars     == <<linkVars, clsVars, mainVars, expVars>>

---------------------------------------------------------------------------
(* Python str operations on sequences of characters.                       *)

UpperCase == <<"A","B","C","D","E","F","G","H","I","J","K","L","M","N","O","P","Q","R","S","T","U","V","W","X","Y","Z">>
LowerCase == <<"a","b","c","d","e","f","g","h","i","j","k","l","m","n","o","p","q","r","s","t","u","v","w","x","y","z">>

\* the lower-case letter of each upper-case letter
LowerMap ==
    [c \in { UpperCase[i] : i \in 1..Len(UpperCase) } |->
        LowerCase[CHOOSE i \in 1..Len(UpperCase) : UpperCase[i] = c]]

\* str.lower() of one character
LowerChar(c) == IF c \in DOMAIN LowerMap THEN LowerMap[c] ELSE c

\* str.lower()
Lower(s) == [i \in 1..Len(s) |-> LowerChar(s[i])]

\* whether sub occurs in s at offset i (0-based)
MatchAt(s, sub, i) ==
    /\ i + Len(sub) <= Len(s)
    /\ \A j \in 1..Len(sub) : s[i + j] = sub[j]

\* the Python test "sub in s": sub occurs at some offset that leaves it room
Contains(s, sub) ==
    \E i \in 0..(Len(s) - Len(sub)) : \A j \in 1..Len(sub) : s[i + j] = sub[j]

\* str.startswith(prefix)
StartsWith(s, prefix) == MatchAt(s, prefix, 0)

\* str.split(sep) for a non-empty sep: cut at each occurrence, left to right
RECURSIVE Split(_, _)
Split(s, sep) ==
    IF Contains(s, sep)
    THEN LET i == CHOOSE k \in 0..Len(s) :
                      /\ MatchAt(s, sep, k)
                      /\ \A m \in 0..(k - 1) : ~MatchAt(s, sep, m)
         IN  <<SubSeq(s, 1, i)>> \o Split(SubSeq(s, i + Len(sep) + 1, Len(s)), sep)
    ELSE <<s>>

\* n copies of the character c
Repeat(c, n) == [i \in 1..n |-> c]

\* list.reverse()
Reverse(s) == [i \in 1..Len(s) |-> s[Len(s) + 1 - i]]

---------------------------------------------------------------------------
(* Configuration of scraper_core.py.                                       *)

\* None; as a str argument None and "" are both <<>>: the code tests "not url"
None == <<>>

EXCLUDED_DOMAINS == <<
    <<"g","o","o","g","l","e",".","c","o","m">>,
    <<"y","o","u","t","u","b","e",".","c","o","m">>,
    <<"f","a","c","e","b","o","o","k",".","c","o","m">>,
    <<"t","w","i","t","t","e","r",".","c","o","m">>,
    <<"l","i","n","k","e","d","i","n",".","c","o","m">>,
    <<"i","n","s","t","a","g","r","a","m",".","c","o","m">>,
    <<"p","i","n","t","e","r","e","s","t",".","c","o","m">>,
    <<"d","u","c","k","d","u","c","k","g","o",".","c","o","m">> >>

high_confidence_keywords == <<
    <<"b","o","n","u","s">>,
    <<"g","r","a","n","t">>,
    <<"r","e","b","a","t","e">>,
    <<"s","c","h","o","l","a","r","s","h","i","p">>,
    <<"c","l","a","i","m">>,
    <<"s","e","t","t","l","e","m","e","n","t">>,
    <<"u","n","c","l","a","i","m","e","d">> >>

\* trust_score given on a keyword match
HIGH_SCORE == 7
\* trust_score given to a long text without a keyword
LOW_SCORE == 3
\* len(text_content) must exceed this for the low-confidence result
SUBSTANTIAL_LEN == 500
\* main keeps opp.trust_score >= 5
TRUST_THRESHOLD == 5

SchemePrefix == <<"h","t","t","p">>
SchemeSep    == <<":","/","/">>
Slash        == <<"/">>

---------------------------------------------------------------------------
(* FinancialScraper._is_valid_link                                         *)

\* url.split("://")[1].split("/")[0]; the caller has checked Len(parts) >= 2
DomainOf(u) == Split(Split(u, SchemeSep)[2], Slash)[1]

\* the generator of line 100: "excluded in domain", as Python compares str
MatchesExcluded(domain) ==
    \E k \in 1..Len(EXCLUDED_DOMAINS) : Contains(domain, EXCLUDED_DOMAINS[k])

_is_valid_link(u) ==
    IF u = None \/ ~StartsWith(u, SchemePrefix)
    THEN FALSE
    ELSE IF Len(Split(u, SchemeSep)) < 2       \* IndexError
    THEN FALSE
    ELSE ~MatchesExcluded(DomainOf(u))

---------------------------------------------------------------------------
(* analyze_opportunity_with_ai                                             *)

\* an opportunity whose score is kept as a percentage
MockOpportunityPercent(title, trust_score, src, summary) ==
    [title |-> title, trust_score |-> trust_score * 10, source_url |-> src,
     summary |-> summary]

MockOpportunity(title, trust_score, src, summary) ==
    [title |-> title, trust_score |-> trust_score, source_url |-> src,
     summary |-> summary]

HasKeyword(text_lower) ==
    \E k \in 1..Len(high_confidence_keywords) :
        Contains(text_lower, high_confidence_keywords[k])

\* the classifier with the length test ahead of the keyword test, so that a
\* short text is None whatever it holds
analyze_opportunity_length_first(text, src) ==
    IF Len(text) <= SUBSTANTIAL_LEN
    THEN None
    ELSE IF HasKeyword(Lower(text))
    THEN <<MockOpportunity("Potential Financial Opportunity Found", HIGH_SCORE,
                           src, "high")>>
    ELSE <<MockOpportunity("Low-Confidence Opportunity", LOW_SCORE, src, "low")>>

\* the classifier with len(text_content) >= 500 in place of > 500
analyze_opportunity_at_least(text, src) ==
    IF HasKeyword(Lower(text))
    THEN <<MockOpportunity("Potential Financial Opportunity Found", HIGH_SCORE,
                           src, "high")>>
    ELSE IF Len(text) >= SUBSTANTIAL_LEN
    THEN <<MockOpportunity("Low-Confidence Opportunity", LOW_SCORE, src, "low")>>
    ELSE None

analyze_opportunity_with_ai(text, src) ==
    IF HasKeyword(Lower(text))
    THEN <<MockOpportunity("Potential Financial Opportunity Found", HIGH_SCORE,
                           src, "high")>>
    ELSE IF Len(text) > SUBSTANTIAL_LEN
    THEN <<MockOpportunity("Low-Confidence Opportunity", LOW_SCORE, src, "low")>>
    ELSE None

---------------------------------------------------------------------------
(* main, lines 189-197: the threshold filter and list.sort(reverse=True)   *)

\* x put into a list sorted by ascending trust_score, after its equals
RECURSIVE InsertAsc(_, _)
InsertAsc(sorted, x) ==
    IF sorted = <<>> THEN <<x>>
    ELSE IF Head(sorted).trust_score <= x.trust_score
    THEN <<Head(sorted)>> \o InsertAsc(Tail(sorted), x)
    ELSE <<x>> \o sorted

\* a stable ascending sort by trust_score
RECURSIVE StableSortAsc(_)
StableSortAsc(s) ==
    IF s = <<>> THEN <<>>
    ELSE InsertAsc(StableSortAsc(SubSeq(s, 1, Len(s) - 1)), s[Len(s)])

\* an ascending sort reversed afterwards, which turns equal keys around
SortReverseUnstable(s) == Reverse(StableSortAsc(s))

\* list.sort(key=trust_score, reverse=True): the list is reversed, sorted
\* stably ascending and reversed again, which keeps equal keys in input order
SortReverse(s) == Reverse(StableSortAsc(Reverse(s)))

\* [opp for opp in all_processed_opps if opp.trust_score >= 5]
FilterByThreshold(opps) ==
    SelectSeq(opps, LAMBDA o : o.trust_score >= TRUST_THRESHOLD)

\* final_opportunities after the if/else of lines 193-197
Rank(opps) ==
    LET kept == FilterByThreshold(opps)
    IN  IF kept = <<>> THEN kept ELSE SortReverse(kept)

---------------------------------------------------------------------------
(* discover_seed_urls                                                      *)

\* how many of the SEARCH_QUERIES the model runs
NumQueries == 3

\* how many of the FAILSAFE_URLS a configuration of the model holds at most
MaxFailsafe == 2

\* the texts of SEARCH_QUERIES (lines 19-28); SEARCH_QUERIES below names each
\* query by its place in this list
SEARCH_QUERY_TEXTS == <<
    <<"c","r","e","d","i","t"," ","c","a","r","d"," ","s","i","g","n","u","p"," ","b","o","n","u","s"," ","o","f","f","e","r","s">>,
    <<"h","i","g","h"," ","y","i","e","l","d"," ","s","a","v","i","n","g","s"," ","a","c","c","o","u","n","t"," ","b","o","n","u","s"," ","2","0","2","4">>,
    <<"b","r","o","k","e","r","a","g","e"," ","a","c","c","o","u","n","t"," ","o","p","e","n","i","n","g"," ","b","o","n","u","s">>,
    <<"u","n","c","l","a","i","m","e","d"," ","g","o","v","e","r","n","m","e","n","t"," ","f","u","n","d","s"," ","l","o","o","k","u","p">>,
    <<"s","m","a","l","l"," ","b","u","s","i","n","e","s","s"," ","g","r","a","n","t","s"," ","2","0","2","4"," ","a","p","p","l","i","c","a","t","i","o","n">>,
    <<"s","t","u","d","e","n","t"," ","s","c","h","o","l","a","r","s","h","i","p","s"," ","a","n","d"," ","g","r","a","n","t","s"," ","f","i","n","a","n","c","i","a","l"," ","a","i","d">>,
    <<"m","a","n","u","f","a","c","t","u","r","e","r"," ","r","e","b","a","t","e","s"," ","a","n","d"," ","c","o","u","p","o","n","s">>,
    <<"c","l","a","s","s"," ","a","c","t","i","o","n"," ","s","e","t","t","l","e","m","e","n","t"," ","c","l","a","i","m","s">> >>

\* SEARCH_QUERIES, each query named by its place in the list
SEARCH_QUERIES == [i \in 1..NumQueries |-> i]

FAILSAFE_URLS == <<
    <<"h","t","t","p","s",":","/","/","w","w","w",".","n","e","r","d","w","a","l","l","e","t",".","c","o","m","/","b","e","s","t","/","c","r","e","d","i","t","-","c","a","r","d","s","/","s","i","g","n","-","u","p","-","b","o","n","u","s">>,
    <<"h","t","t","p","s",":","/","/","w","w","w",".","f","o","r","b","e","s",".","c","o","m","/","a","d","v","i","s","o","r","/","b","a","n","k","i","n","g","/","b","e","s","t","-","b","a","n","k","-","b","o","n","u","s","e","s","-","a","n","d","-","p","r","o","m","o","t","i","o","n","s","/">>,
    <<"h","t","t","p","s",":","/","/","w","w","w",".","u","n","c","l","a","i","m","e","d",".","o","r","g","/">>,
    <<"h","t","t","p","s",":","/","/","g","r","a","n","t","s",".","g","o","v">> >>

\* set(a list)
SetOf(list) == { list[i] : i \in 1..Len(list) }

\* the loop over one query's results without the test of line 124
AddLinksNoFilter(links, hrefs) == links \cup SetOf(hrefs)

\* lines 122-125: the loop over one query's results; hrefs[i] is
\* result.get('href') of the i-th result
RECURSIVE AddValidLinks(_, _)
AddValidLinks(links, hrefs) ==
    IF hrefs = <<>> THEN links
    ELSE AddValidLinks(IF _is_valid_link(Head(hrefs))
                       THEN links \cup {Head(hrefs)}
                       ELSE links,
                       Tail(hrefs))

\* line 126: an exception of ddgs.text leaves the for loop of line 115
AfterRaise(i) == "searched"

\* discover_seed_urls adding the failsafe urls to what the search gave
DiscoverResultWithFailsafe(links, failsafe) == links \cup SetOf(failsafe)

\* discover_seed_urls without the switch to the failsafe list
DiscoverResultNoFailsafe(links, failsafe) == links

\* lines 129-135: what discover_seed_urls returns
DiscoverResult(links, failsafe) ==
    IF links = {} THEN SetOf(failsafe) ELSE links

---------------------------------------------------------------------------
(* process_links_with_ai and _fetch_and_analyze                            *)

\* the extracted texts a page can have: a short one with a keyword, a long
\* one without, a short one without
PageTexts == <<
    <<"g","r","a","n","t">> \o Repeat("x", 45),
    Repeat("x", 600),
    Repeat("x", 50) >>

\* what fetching and extracting one url can give
FetchOutcomes ==
    { [kind |-> k, page |-> 0] :
        k \in {"fetch_none", "fetch_raises", "extract_none", "extract_raises"} }
    \cup { [kind |-> "text", page |-> i] : i \in 1..Len(PageTexts) }

\* _fetch_and_analyze without the except clause of line 168
FetchAndAnalyzeNoExcept(outcome, u) ==
    IF outcome.kind \in {"fetch_raises", "extract_raises"}
    THEN [raised |-> TRUE, value |-> None]
    ELSE IF outcome.kind \in {"fetch_none", "extract_none"}
    THEN [raised |-> FALSE, value |-> None]
    ELSE [raised |-> FALSE,
          value |-> analyze_opportunity_with_ai(PageTexts[outcome.page], u)]

\* _fetch_and_analyze: raised tells whether the coroutine ends by an exception
FetchAndAnalyze(outcome, u) ==
    IF outcome.kind \in {"fetch_raises", "extract_raises"}
    THEN [raised |-> FALSE, value |-> None]                  \* except Exception
    ELSE IF outcome.kind \in {"fetch_none", "extract_none"}
    THEN [raised |-> FALSE, value |-> None]                  \* not downloaded
    ELSE IF PageTexts[outcome.page] = <<>>
    THEN [raised |-> FALSE, value |-> None]                  \* not text_content
    ELSE [raised |-> FALSE,
          value |-> analyze_opportunity_with_ai(PageTexts[outcome.page], u)]

\* line 144: [result for result in results if result], in task order
RECURSIVE Opportunities(_, _)
Opportunities(order, t) ==
    IF order = <<>> THEN <<>>
    ELSE t[Head(order)].value \o Opportunities(Tail(order), t)

---------------------------------------------------------------------------
(* DynamicQueryBuilder._fetch_related_for_query                            *)

\* a term must be longer than this (line 85)
MIN_TERM_LEN == 3

\* the one character U+203A, the breadcrumb separator of line 86
Breadcrumb == "U+203A"

SeeMore == <<"S","e","e"," ","m","o","r","e">>

\* line 86: "›" in term or "See more" in term
IsJunk(term) == Contains(term, <<Breadcrumb>>) \/ Contains(term, SeeMore)

\* lines 85-88: whether term goes into final_new_terms
KeepTerm(term, expanded) ==
    /\ term # <<>>
    /\ Len(term) > MIN_TERM_LEN
    /\ Lower(term) \notin expanded
    /\ ~IsJunk(term)

\* an assignment in place of set.update
UpdateReplaces(expanded, terms) == terms

\* set.update
Update(expanded, terms) == expanded \cup terms

\* _fetch_related_for_query without the except clause of line 97
FetchRelatedNoExcept(outcome, expanded) ==
    IF outcome.kind \in {"exception", "parse_error"}
    THEN [raised |-> TRUE, expanded |-> expanded]
    ELSE IF outcome.kind = "non200"
    THEN [raised |-> FALSE, expanded |-> expanded]
    ELSE LET final_new_terms == { t \in outcome.found : KeepTerm(t, expanded) }
         IN  [raised |-> FALSE,
              expanded |-> IF final_new_terms # {}
                           THEN Update(expanded, final_new_terms)
                           ELSE expanded]

\* _fetch_related_for_query from the answer of client.get to its end, the
\* outcome being: the get raises, a status other than 200, a failure while
\* parsing, or a page with the set found_new_terms of lines 66-80;
\* raised tells whether the coroutine ends by an exception, expanded is
\* self.expanded_queries afterwards
FetchRelated(outcome, expanded) ==
    IF outcome.kind \in {"exception", "parse_error"}
    THEN [raised |-> FALSE, expanded |-> expanded]        \* except Exception
    ELSE IF outcome.kind = "non200"
    THEN [raised |-> FALSE, expanded |-> expanded]        \* return of line 60
    ELSE LET final_new_terms == { t \in outcome.found : KeepTerm(t, expanded) }
         IN  [raised |-> FALSE,
              expanded |-> IF final_new_terms # {}
                           THEN Update(expanded, final_new_terms)
                           ELSE expanded]

---------------------------------------------------------------------------
(* Initial values of the parts a specification does not exercise.          *)

LinkIdle == url = <<>> /\ link_called = FALSE /\ valid = FALSE

ClsIdle ==
    /\ text_tag = [kw |-> FALSE, len |-> 0, place |-> "start"]
    /\ text_content = <<>>
    /\ source_url = <<>>
    /\ cls_called = FALSE
    /\ opportunity = None

DiscIdle ==
    /\ failsafe_urls = <<>>
    /\ provider = <<>>
    /\ qi = 1
    /\ issued = {}
    /\ all_links = {}
    /\ seed_urls = {}

TaskIdle == tasks = <<>> /\ task = <<>>

RankIdle == all_processed_opps = <<>> /\ final_opportunities = <<>>

MainIdle == pc = "idle" /\ DiscIdle /\ TaskIdle /\ RankIdle

ExpIdle ==
    /\ exp_pc = "idle"
    /\ initial_queries = <<>>
    /\ expanded_queries = {}
    /\ exp_task = <<>>
    /\ related = <<>>
    /\ returned = {}

---------------------------------------------------------------------------
(* SpecLink: _is_valid_link applied to a bounded set of urls.              *)

LinkSchemes == {
    <<>>,
    <<"h","t","t","p">>,
    <<"h","t","t","p","s">>,
    <<"f","t","p">>,
    <<"H","T","T","P">>,
    <<"w","w","w">> }

LinkSeps == { <<":","/","/">>, <<":","/">>, <<>> }

LinkHosts == {
    <<>>,
    <<"g","o","o","g","l","e",".","c","o","m">>,
    <<"G","O","O","G","L","E",".","c","o","m">>,
    <<"w","w","w",".","Y","o","u","T","u","b","e",".","c","o","m">>,
    <<"m","y","g","o","o","g","l","e",".","c","o","m","m","u","n","i","t","y">>,
    <<"w","w","w",".","n","e","r","d","w","a","l","l","e","t",".","c","o","m">>,
    <<"g","r","a","n","t","s",".","g","o","v">>,
    <<"g","o","o","g","l","e",".","c","o">> }

LinkPaths == {
    <<>>,
    <<"/">>,
    <<"/","x">>,
    <<"/","g","o","o","g","l","e",".","c","o","m">>,
    <<"/","a",":","/","/","b">> }

UrlInputs ==
    { s \o sep \o h \o p : s \in LinkSchemes, sep \in LinkSeps,
                           h \in LinkHosts, p \in LinkPaths }

InitLink == url \in UrlInputs /\ link_called = FALSE /\ valid = FALSE
            /\ ClsIdle /\ MainIdle /\ ExpIdle

\* one call of self._is_valid_link(url)
CheckLink ==
    /\ ~link_called
    /\ link_called' = TRUE
    /\ valid' = _is_valid_link(url)
    /\ UNCHANGED <<url, clsVars, mainVars, expVars>>

NextLink == CheckLink

SpecLink == InitLink /\ [][NextLink]_vars

---------------------------------------------------------------------------
(* SpecClassify: analyze_opportunity_with_ai applied to texts built from a *)
(* word, a total length and the place of the word in the filler.           *)

\* kw: whether the word holds a high-confidence keyword, ignoring case
ClassifyWords == {
    [w |-> <<>>, kw |-> FALSE],
    [w |-> <<"b","o","n","u","s">>, kw |-> TRUE],
    [w |-> <<"g","r","a","n","t">>, kw |-> TRUE],
    [w |-> <<"r","e","b","a","t","e">>, kw |-> TRUE],
    [w |-> <<"s","c","h","o","l","a","r","s","h","i","p">>, kw |-> TRUE],
    [w |-> <<"c","l","a","i","m">>, kw |-> TRUE],
    [w |-> <<"s","e","t","t","l","e","m","e","n","t">>, kw |-> TRUE],
    [w |-> <<"u","n","c","l","a","i","m","e","d">>, kw |-> TRUE],
    [w |-> <<"B","O","N","U","S">>, kw |-> TRUE],
    [w |-> <<"G","r","a","n","t">>, kw |-> TRUE],
    [w |-> <<"U","n","C","l","a","i","m","e","d">>, kw |-> TRUE],
    [w |-> <<"r","e","b","a","t","e","s">>, kw |-> TRUE],
    [w |-> <<"b","o","n","u"," ","s">>, kw |-> FALSE],
    [w |-> <<"g","r","a","n">>, kw |-> FALSE],
    [w |-> <<"m","o","n","e","y">>, kw |-> FALSE],
    [w |-> <<"S","E","T","T","L","E">>, kw |-> FALSE] }

ClassifyLengths == {0, 4, 50, 499, 500, 501, 600}

Filler == "x"

\* the word padded with filler to n characters (the word alone if longer)
BuildText(w, n, place) ==
    LET pad == Repeat(Filler, IF n > Len(w) THEN n - Len(w) ELSE 0)
    IN  IF place = "start" THEN w \o pad ELSE pad \o w

ClassifyUrls == {
    <<"h","t","t","p","s",":","/","/","g","r","a","n","t","s",".","g","o","v">>,
    <<"h","t","t","p",":","/","/","a">> }

InitClassify ==
    /\ \E wd \in ClassifyWords, n \in ClassifyLengths, place \in {"start", "end"} :
          /\ text_tag = [kw |-> wd.kw, len |-> n, place |-> place]
          /\ text_content = BuildText(wd.w, n, place)
    /\ source_url \in ClassifyUrls
    /\ cls_called = FALSE
    /\ opportunity = None
    /\ LinkIdle /\ MainIdle /\ ExpIdle

\* one call of analyze_opportunity_with_ai(text_content, source_url)
Analyze ==
    /\ ~cls_called
    /\ cls_called' = TRUE
    /\ opportunity' = analyze_opportunity_with_ai(text_content, source_url)
    /\ UNCHANGED <<text_tag, text_content, source_url, linkVars, mainVars, expVars>>

NextClassify == Analyze

SpecClassify == InitClassify /\ [][NextClassify]_vars

---------------------------------------------------------------------------
(* SpecRank: lines 189-197 of main applied to lists of opportunities with  *)
(* any scores; the source_url of the i-th one names its place in the list. *)

MaxOpps == 4

RankScores == {3, 4, 5, 7}

Digits == <<"1","2","3","4","5","6","7","8","9">>

RankUrl(i) == <<"u", Digits[i]>>

RankInputs ==
    UNION { { [i \in 1..n |-> MockOpportunity("t", f[i], RankUrl(i), "s")] :
                f \in [1..n -> RankScores] } : n \in 0..MaxOpps }

InitRank ==
    /\ pc = "processed"
    /\ all_processed_opps \in RankInputs
    /\ final_opportunities = <<>>
    /\ DiscIdle /\ TaskIdle
    /\ LinkIdle /\ ClsIdle /\ ExpIdle

\* main, lines 189-197
RankStep ==
    /\ pc = "processed"
    /\ final_opportunities' = Rank(all_processed_opps)
    /\ pc' = "done"
    /\ UNCHANGED <<all_processed_opps, discVars, taskVars, linkVars, clsVars, expVars>>

NextRank == RankStep

SpecRank == InitRank /\ [][NextRank]_vars

---------------------------------------------------------------------------
(* The pipeline of main(): discovery, fan-out, ranking.                    *)

LiveA == <<"h","t","t","p","s",":","/","/","a",".","c","o","m","/","x">>
LiveB == <<"h","t","t","p",":","/","/","b",".","o","r","g">>
Excluded == <<"h","t","t","p","s",":","/","/","w","w","w",".","y","o","u","t","u","b","e",".","c","o","m","/","w">>
NoScheme == <<"f","t","p",":","/","/","a",".","c","o","m">>

\* what ddgs.text can do for one query: raise, or return a list of results
\* (hrefs: the href of each result, None for a result without one)
Responses == {
    [raises |-> TRUE,  hrefs |-> <<>>],
    [raises |-> FALSE, hrefs |-> <<>>],
    [raises |-> FALSE, hrefs |-> <<LiveA>>],
    [raises |-> FALSE, hrefs |-> <<LiveB>>],
    [raises |-> FALSE, hrefs |-> <<Excluded, None, NoScheme>>],
    [raises |-> FALSE, hrefs |-> <<LiveA, Excluded, LiveB>>] }

\* the configurations of the failsafe list: the first n of the shipped urls
FailsafeConfigs == { SubSeq(FAILSAFE_URLS, 1, n) : n \in 0..MaxFailsafe }

\* the orders in which "for url in urls" can visit a set
Orders(S) ==
    { o \in [1..Cardinality(S) -> S] :
        \A i, j \in 1..Cardinality(S) : i # j => o[i] # o[j] }

InitMain(providers) ==
    /\ pc = "start"
    /\ failsafe_urls \in FailsafeConfigs
    /\ provider \in providers
    /\ qi = 1
    /\ issued = {}
    /\ all_links = {}
    /\ seed_urls = {}
    /\ TaskIdle /\ RankIdle
    /\ LinkIdle /\ ClsIdle /\ ExpIdle

\* main line 178 and discover_seed_urls lines 111-114
DiscoverStart ==
    /\ pc = "start"
    /\ pc' = "searching"
    /\ all_links' = {}
    /\ qi' = 1
    /\ UNCHANGED <<failsafe_urls, provider, issued, seed_urls, taskVars, rankVars,
                   linkVars, clsVars, expVars>>

\* one turn of the loop of lines 115-127, ddgs.text answering resp
SearchQuery(resp) ==
    /\ pc = "searching"
    /\ qi <= NumQueries
    /\ issued' = issued \cup {SEARCH_QUERIES[qi]}
    /\ IF resp.raises
       THEN /\ pc' = AfterRaise(qi)
            /\ UNCHANGED <<all_links, qi>>
       ELSE /\ all_links' = AddValidLinks(all_links, resp.hrefs)
            /\ qi' = qi + 1
            /\ pc' = IF qi < NumQueries THEN "searching" ELSE "searched"
    /\ UNCHANGED <<failsafe_urls, provider, seed_urls, taskVars, rankVars,
                   linkVars, clsVars, expVars>>

\* lines 129-135: discover_seed_urls returns
DiscoverReturn ==
    /\ pc = "searched"
    /\ seed_urls' = DiscoverResult(all_links, failsafe_urls)
    /\ pc' = "discovered"
    /\ UNCHANGED <<failsafe_urls, provider, qi, issued, all_links, taskVars,
                   rankVars, linkVars, clsVars, expVars>>

\* main without the test of line 180: the fan-out starts whatever seed_urls is
StartFanOutNoAbort ==
    /\ pc = "discovered"
    /\ pc' = "gathering"
    /\ tasks' \in Orders(seed_urls)
    /\ task' = [u \in seed_urls |->
                  [status |-> "fetching", kind |-> "none", page |-> 0,
                   raised |-> FALSE, value |-> None]]
    /\ UNCHANGED <<discVars, rankVars, linkVars, clsVars, expVars>>

\* main lines 180-185 and process_links_with_ai line 140-141: stop without
\* seeds, else one task per url, each run up to its await of the fetch
StartFanOut ==
    /\ pc = "discovered"
    /\ IF seed_urls = {}
       THEN /\ pc' = "aborted"
            /\ UNCHANGED taskVars
       ELSE /\ pc' = "gathering"
            /\ tasks' \in Orders(seed_urls)
            /\ task' = [u \in seed_urls |->
                          [status |-> "fetching", kind |-> "none", page |-> 0,
                           raised |-> FALSE, value |-> None]]
    /\ UNCHANGED <<discVars, rankVars, linkVars, clsVars, expVars>>

\* a task that also puts a url found in its page among the candidates
FetchDoneFollowsLinks(u, outcome) ==
    /\ pc = "gathering"
    /\ u \in DOMAIN task
    /\ task[u].status = "fetching"
    /\ LET r == FetchAndAnalyze(outcome, u)
       IN  task' = [task EXCEPT ![u] =
                      [status |-> "done", kind |-> outcome.kind,
                       page |-> outcome.page, raised |-> r.raised,
                       value |-> r.value]]
    /\ seed_urls' = IF outcome.kind = "text" THEN seed_urls \cup {LiveA} ELSE seed_urls
    /\ UNCHANGED <<pc, tasks, failsafe_urls, provider, qi, issued, all_links,
                   rankVars, linkVars, clsVars, expVars>>

\* the fetch of u ends with outcome and _fetch_and_analyze runs to its end
FetchDone(u, outcome) ==
    /\ pc = "gathering"
    /\ u \in DOMAIN task
    /\ task[u].status = "fetching"
    /\ LET r == FetchAndAnalyze(outcome, u)
       IN  task' = [task EXCEPT ![u] =
                      [status |-> "done", kind |-> outcome.kind,
                       page |-> outcome.page, raised |-> r.raised,
                       value |-> r.value]]
    /\ UNCHANGED <<pc, tasks, discVars, rankVars, linkVars, clsVars, expVars>>

\* a gather that returns as soon as one task has ended
GatherDoneFirstCompleted ==
    /\ pc = "gathering"
    /\ \E u \in DOMAIN task : task[u].status = "done"
    /\ IF \E u \in DOMAIN task : task[u].raised
       THEN /\ pc' = "raised"
            /\ UNCHANGED all_processed_opps
       ELSE /\ pc' = "processed"
            /\ all_processed_opps' = Opportunities(tasks, task)
    /\ UNCHANGED <<final_opportunities, discVars, taskVars, linkVars, clsVars, expVars>>

\* asyncio.gather returns (or raises what a task raised) and lines 144-145
GatherDone ==
    /\ pc = "gathering"
    /\ \A u \in DOMAIN task : task[u].status = "done"
    /\ IF \E u \in DOMAIN task : task[u].raised
       THEN /\ pc' = "raised"
            /\ UNCHANGED all_processed_opps
       ELSE /\ pc' = "processed"
            /\ all_processed_opps' = Opportunities(tasks, task)
    /\ UNCHANGED <<final_opportunities, discVars, taskVars, linkVars, clsVars, expVars>>

\* the providers scripted for every query, for SpecDiscover
ScriptedProviders == [1..NumQueries -> Responses]

InitDiscover == InitMain(ScriptedProviders)

NextDiscover ==
    \/ DiscoverStart
    \/ SearchQuery(provider[qi])
    \/ DiscoverReturn

\* discover_seed_urls alone, the provider's answer to every query fixed ahead
SpecDiscover == InitDiscover /\ [][NextDiscover]_vars

Init == InitMain({<<>>})

Next ==
    \/ DiscoverStart
    \/ \E resp \in Responses : SearchQuery(resp)
    \/ DiscoverReturn
    \/ StartFanOut
    \/ \E u \in DOMAIN task, outcome \in FetchOutcomes : FetchDone(u, outcome)
    \/ GatherDone
    \/ RankStep

\* main() from start to end
Spec == Init /\ [][Next]_vars

\* the provider that returns no result for any query
EmptyProvider == [q \in 1..NumQueries |-> [raises |-> FALSE, hrefs |-> <<>>]]

\* main() with the provider returning nothing and the first two failsafe urls
InitEndToEnd ==
    /\ InitMain({EmptyProvider})
    /\ failsafe_urls = SubSeq(FAILSAFE_URLS, 1, 2)

NextEndToEnd ==
    \/ DiscoverStart
    \/ SearchQuery(provider[qi])
    \/ DiscoverReturn
    \/ StartFanOut
    \/ \E u \in DOMAIN task, outcome \in FetchOutcomes : FetchDone(u, outcome)
    \/ GatherDone
    \/ RankStep

\* main() from start to end on that input; every call main awaits (the
\* provider's answer, each fetch) ends, and the event loop then runs main on
SpecEndToEnd == InitEndToEnd /\ [][NextEndToEnd]_vars /\ WF_vars(NextEndToEnd)

\* main at line 184: discover_seed_urls has run every query and returned
InitFanOut ==
    /\ pc = "discovered"
    /\ failsafe_urls \in FailsafeConfigs
    /\ provider = <<>>
    /\ qi = NumQueries + 1
    /\ issued = 1..NumQueries
    /\ all_links \in SUBSET {LiveA, LiveB}
    /\ seed_urls = DiscoverResult(all_links, failsafe_urls)
    /\ TaskIdle /\ RankIdle
    /\ LinkIdle /\ ClsIdle /\ ExpIdle

NextFanOut ==
    \/ StartFanOut
    \/ \E u \in DOMAIN task, outcome \in FetchOutcomes : FetchDone(u, outcome)
    \/ GatherDone

\* main lines 180-185; a fetch that is under way returns or fails in the end
\* (run_in_executor of the blocking fetch_url), and the event loop runs a
\* coroutine that can go on: while a step is possible, one is taken
SpecFanOut == InitFanOut /\ [][NextFanOut]_vars /\ WF_vars(NextFanOut)

---------------------------------------------------------------------------
(* SpecExpand: a DynamicQueryBuilder from its construction to the return   *)
(* of expand_queries.                                                      *)

\* the most seed queries a builder is made with
MaxSeeds == 2

\* the most terms one result page holds
MaxFound == 2

SeedGrants    == <<"g","r","a","n","t","s">>
SeedFreeMoney == <<"F","r","e","e"," ","M","o","n","e","y">>

SeedPool == { SeedGrants, SeedFreeMoney }

SeedLists == UNION { [1..n -> SeedPool] : n \in 0..MaxSeeds }

\* the texts of the links and questions of a result page
TermPool == {
    <<>>,
    <<"a","b","c">>,
    <<"f","r","e","e"," ","m","o","n","e","y">>,
    <<"F","r","e","e"," ","M","o","n","e","y">>,
    <<"G","r","a","n","t","s">>,
    <<"b","e","s","t"," ","g","r","a","n","t","s">>,
    <<"S","e","e"," ","m","o","r","e">>,
    <<"a"," ",Breadcrumb," ","b">>,
    Repeat("y", 101) }

FoundSets == { F \in SUBSET TermPool : Cardinality(F) <= MaxFound }

ExpandOutcomes ==
    { [kind |-> k, found |-> {}] : k \in {"exception", "non200", "parse_error"} }
    \cup { [kind |-> "ok", found |-> F] : F \in FoundSets }

\* DynamicQueryBuilder.__init__
InitExpand ==
    /\ exp_pc = "constructed"
    /\ initial_queries \in SeedLists
    /\ expanded_queries = SetOf(initial_queries)
    /\ exp_task = <<>>
    /\ related = <<>>
    /\ returned = {}
    /\ LinkIdle /\ ClsIdle /\ MainIdle

\* expand_queries lines 36-39: one task per seed, each run up to its await
ExpandStart ==
    /\ exp_pc = "constructed"
    /\ exp_pc' = "gathering"
    /\ exp_task' = [i \in 1..Len(initial_queries) |-> "awaiting"]
    /\ UNCHANGED <<initial_queries, expanded_queries, related, returned,
                   linkVars, clsVars, mainVars>>

\* the task of the i-th seed gets outcome from client.get and runs to its end
FetchRelatedDone(i, outcome) ==
    /\ exp_pc = "gathering"
    /\ exp_task[i] = "awaiting"
    /\ LET r == FetchRelated(outcome, expanded_queries)
       IN  /\ expanded_queries' = r.expanded
           /\ exp_task' = [exp_task EXCEPT ![i] =
                             IF r.raised THEN "raised" ELSE outcome.kind]
    /\ UNCHANGED <<exp_pc, initial_queries, related, returned,
                   linkVars, clsVars, mainVars>>

\* asyncio.gather returns (or raises what a task raised) and lines 41-42
ExpandReturn ==
    /\ exp_pc = "gathering"
    /\ \A i \in 1..Len(exp_task) : exp_task[i] # "awaiting"
    /\ IF \E i \in 1..Len(exp_task) : exp_task[i] = "raised"
       THEN /\ exp_pc' = "raised"
            /\ UNCHANGED returned
       ELSE /\ exp_pc' = "returned"
            /\ returned' = expanded_queries
    /\ UNCHANGED <<initial_queries, expanded_queries, exp_task, related,
                   linkVars, clsVars, mainVars>>

NextExpand ==
    \/ ExpandStart
    \/ \E i \in 1..Len(exp_task), outcome \in ExpandOutcomes : FetchRelatedDone(i, outcome)
    \/ ExpandReturn

SpecExpand == InitExpand /\ [][NextExpand]_vars

SeedLoans == <<"l","o","a","n","s">>

\* a builder whose client.get has its answer for each seed fixed ahead
InitExpandScripted ==
    /\ exp_pc = "constructed"
    /\ initial_queries \in SeedLists \cup {<<SeedGrants, SeedLoans>>}
    /\ expanded_queries = SetOf(initial_queries)
    /\ exp_task = <<>>
    /\ related \in [1..Len(initial_queries) -> ExpandOutcomes]
    /\ returned = {}
    /\ LinkIdle /\ ClsIdle /\ MainIdle

NextExpandScripted ==
    \/ ExpandStart
    \/ \E i \in 1..Len(exp_task) : FetchRelatedDone(i, related[i])
    \/ ExpandReturn

\* expand_queries with the answers fixed: only the order in which the tasks
\* get their answers is left open
SpecExpandScripted == InitExpandScripted /\ [][NextExpandScripted]_vars

---------------------------------------------------------------------------
(* SpecPipeline: the two entry points run one after the other, in the      *)
(* order of the data flow: DynamicQueryBuilder(seeds).expand_queries(),    *)
(* then discover_seed_urls() as main() calls it.  main() takes no          *)
(* argument and discover_seed_urls reads SEARCH_QUERIES.                   *)

\* the builder is made with the first seeds of SEARCH_QUERIES
PipelineSeedLists == { SubSeq(SEARCH_QUERY_TEXTS, 1, n) : n \in 1..MaxSeeds }

InitPipeline ==
    /\ exp_pc = "constructed"
    /\ initial_queries \in PipelineSeedLists
    /\ expanded_queries = SetOf(initial_queries)
    /\ exp_task = <<>>
    /\ related = <<>>
    /\ returned = {}
    /\ pc = "start"
    /\ failsafe_urls \in FailsafeConfigs
    /\ provider = <<>>
    /\ qi = 1
    /\ issued = {}
    /\ all_links = {}
    /\ seed_urls = {}
    /\ TaskIdle /\ RankIdle
    /\ LinkIdle /\ ClsIdle

NextPipeline ==
    \/ ExpandStart
    \/ \E i \in 1..Len(exp_task), outcome \in ExpandOutcomes : FetchRelatedDone(i, outcome)
    \/ ExpandReturn
    \/ exp_pc = "returned" /\ DiscoverStart
    \/ \E resp \in Responses : SearchQuery(resp)
    \/ DiscoverReturn

SpecPipeline == InitPipeline /\ [][NextPipeline]_vars

---------------------------------------------------------------------------
(* Claims.                                                                 *)

\* the urls whose fetch or extraction failed (returned nothing or raised)
FailedUrls ==
    { u \in DOMAIN task :
        task[u].kind \in {"fetch_none", "fetch_raises", "extract_none", "extract_raises"} }

\* the pages of PageTexts with a keyword or more than 500 characters
AcceptedPages == {1, 2}

\* the urls whose text was extracted and is one the classifier accepts
AcceptedUrls ==
    { u \in DOMAIN task : task[u].kind = "text" /\ task[u].page \in AcceptedPages }

\* C1 as stated: process_links_with_ai never raises and returns exactly
\* N - |F| results, one for each url whose fetch and extraction did not fail.
C1_ExactlyNMinusFailures ==
    /\ pc # "raised"
    /\ pc = "processed" =>
         Len(all_processed_opps) = Cardinality(seed_urls) - Cardinality(FailedUrls)

\* C1 amended: process_links_with_ai never raises and returns exactly one
\* result for each url that did not fail and whose text the classifier
\* accepts; that is at most N - |F| results.
C1_OneResultPerAcceptedUrl ==
    /\ pc # "raised"
    /\ pc = "processed" =>
         /\ Len(all_processed_opps) = Cardinality(AcceptedUrls)
         /\ { all_processed_opps[i].source_url : i \in 1..Len(all_processed_opps) }
              = AcceptedUrls
         /\ Len(all_processed_opps) <= Cardinality(seed_urls) - Cardinality(FailedUrls)

\* C1 witness: two urls, the fetch of one raised, the other gave a result
C1_Witness ==
    /\ pc = "processed"
    /\ Cardinality(seed_urls) = 2
    /\ \E u \in seed_urls : task[u].kind = "fetch_raises"
    /\ Len(all_processed_opps) = 1

\* whether no query raised and no query returned a url that passes the filter
NoLiveUrl ==
    \A q \in 1..NumQueries :
        /\ ~provider[q].raises
        /\ \A i \in 1..Len(provider[q].hrefs) : provider[q].hrefs[i] \notin {LiveA, LiveB}

\* C2: when every query returns no result, or none that passes the domain
\* filter, and the failsafe list is not empty, discover_seed_urls returns
\* exactly the failsafe urls.
C2_FailsafeWhenNothingFound ==
    (pc = "discovered" /\ failsafe_urls # <<>> /\ NoLiveUrl) =>
        seed_urls = { failsafe_urls[i] : i \in 1..Len(failsafe_urls) }

\* C2 witness: a query returned only filtered-out urls, the failsafe urls are returned
C2_Witness ==
    /\ pc = "discovered"
    /\ Len(failsafe_urls) = 2
    /\ NoLiveUrl
    /\ \E q \in 1..NumQueries : provider[q].hrefs # <<>>
    /\ seed_urls = { failsafe_urls[1], failsafe_urls[2] }

\* C3: a query whose search raises is the only one skipped: every other
\* query is issued and its urls that pass the filter are returned.
C3_FailedQueryOnlySkipsItself ==
    pc = "discovered" =>
        \A q \in 1..NumQueries :
            ~provider[q].raises =>
                /\ q \in issued
                /\ \A i \in 1..Len(provider[q].hrefs) :
                      provider[q].hrefs[i] \in {LiveA, LiveB}
                          => provider[q].hrefs[i] \in seed_urls

\* how a task that failed ended: the get raised, a status other than 200, a
\* failure while parsing
FailedKinds == {"exception", "non200", "parse_error"}

\* C4: the set expand_queries returns holds every seed query, whatever each
\* seed's task met and in whatever order the tasks ended, and no step takes
\* an element out of expanded_queries.
C4_SeedsAlwaysKept ==
    /\ [](exp_pc = "returned" =>
            \A i \in 1..Len(initial_queries) : initial_queries[i] \in returned)
    /\ [][\A q \in expanded_queries : q \in expanded_queries']_vars

\* C4 witness: two seeds, the task of the first failed and the task of the
\* second added a term, and both seeds are in the returned set
C4_Witness ==
    /\ exp_pc = "returned"
    /\ Len(initial_queries) = 2
    /\ initial_queries[1] # initial_queries[2]
    /\ exp_task[1] = "exception"
    /\ exp_task[2] = "ok"
    /\ Cardinality(returned) > 2
    /\ initial_queries[1] \in returned /\ initial_queries[2] \in returned

\* C5: a task that fails (provider exception, status other than 200, parse
\* failure) leaves expanded_queries as it was, and expand_queries never ends
\* by an exception: it returns once every task has ended, with what the
\* other tasks merged.
C5_FailedSeedAddsNothing ==
    /\ [](exp_pc # "raised")
    /\ [](exp_pc = "returned" =>
            /\ \A i \in 1..Len(exp_task) : exp_task[i] \in FailedKinds \cup {"ok"}
            /\ returned = expanded_queries)
    /\ [][\A i \in 1..Len(exp_task) :
            (exp_task[i] = "awaiting" /\ exp_task'[i] \in FailedKinds)
                => expanded_queries' = expanded_queries]_vars

\* C5 witness: the task of the first seed failed on a status other than 200,
\* the task of the second seed added a term, and the term is returned
C5_Witness ==
    /\ exp_pc = "returned"
    /\ Len(initial_queries) = 2
    /\ exp_task[1] = "non200"
    /\ exp_task[2] = "ok"
    /\ \E t \in returned : \A i \in 1..Len(initial_queries) : initial_queries[i] # t

\* C6: no two distinct members of the returned set are equal ignoring case.
C6_NoCaseInsensitiveDuplicates ==
    exp_pc = "returned" =>
        \A a, b \in returned : Lower(a) = Lower(b) => a = b

\* C7: no term that is empty, of length <= 3, already present ignoring case,
\* or junk (holds "See more" or the breadcrumb separator, or is longer than
\* 100 characters) is ever added to expanded_queries.
C7_NoDiscardedTermAdded ==
    [][exp_pc = "gathering" =>
         \A t \in expanded_queries' :
            t \notin expanded_queries =>
                /\ t # <<>>
                /\ Len(t) > 3
                /\ \A q \in expanded_queries : Lower(q) # Lower(t)
                /\ ~Contains(t, SeeMore)
                /\ ~Contains(t, <<Breadcrumb>>)
                /\ Len(t) <= 100]_vars

\* "excluded in domain" compared ignoring case
MatchesExcludedAnyCase(domain) ==
    \E k \in 1..Len(EXCLUDED_DOMAINS) :
        Contains(Lower(domain), Lower(EXCLUDED_DOMAINS[k]))

\* C8: _is_valid_link(url) is false exactly when url is empty, does not start
\* with the scheme prefix, has no authority after "://", or has an authority
\* that contains an exclusion-list entry compared ignoring case.
C8_RejectsExcludedIgnoringCase ==
    link_called =>
        (valid <=>
            ~( \/ url = <<>>
               \/ ~StartsWith(url, SchemePrefix)
               \/ Len(Split(url, SchemeSep)) < 2
               \/ MatchesExcludedAnyCase(DomainOf(url)) ))

\* the place in all_processed_opps of an opportunity of final_opportunities
InputPlace(o) == CHOOSE k \in 1..Len(all_processed_opps) : all_processed_opps[k] = o

\* C9: the ranked output holds exactly the opportunities with trust_score >= 5,
\* in non-increasing order of trust_score, equal scores in input order.
C9_RankFiltersAndSortsStably ==
    pc = "done" =>
        /\ { final_opportunities[i] : i \in 1..Len(final_opportunities) }
             = { all_processed_opps[k] : k \in { m \in 1..Len(all_processed_opps) :
                                                   all_processed_opps[m].trust_score >= 5 } }
        /\ Len(final_opportunities)
             = Cardinality({ m \in 1..Len(all_processed_opps) :
                               all_processed_opps[m].trust_score >= 5 })
        /\ \A i, j \in 1..Len(final_opportunities) :
              i < j =>
                /\ final_opportunities[i].trust_score >= final_opportunities[j].trust_score
                /\ final_opportunities[i].trust_score = final_opportunities[j].trust_score
                     => InputPlace(final_opportunities[i]) < InputPlace(final_opportunities[j])

\* the list of trust scores of a list of opportunities
Scores(opps) == [i \in 1..Len(opps) |-> opps[i].trust_score]

\* C9 witness: scores [3,7,5,7] ranked to [7,7,5], the first input 7 first
C9_Witness ==
    /\ pc = "done"
    /\ Scores(all_processed_opps) = <<3, 7, 5, 7>>
    /\ Scores(final_opportunities) = <<7, 7, 5>>
    /\ final_opportunities[1] = all_processed_opps[2]
    /\ final_opportunities[2] = all_processed_opps[4]

\* C10: the classifier returns score 7 for a text holding a keyword in any
\* letter case, whatever its length; else score 3 for a text longer than 500;
\* else None; the source url of the result is the url given.
C10_ClassifierTiers ==
    cls_called =>
        IF text_tag.kw
        THEN /\ Len(opportunity) = 1
             /\ opportunity[1].trust_score = 7
             /\ opportunity[1].source_url = source_url
        ELSE IF Len(text_content) > 500
        THEN /\ Len(opportunity) = 1
             /\ opportunity[1].trust_score = 3
             /\ opportunity[1].source_url = source_url
        ELSE opportunity = <<>>

\* C10 witness: a text of exactly 500 characters without a keyword gives None
C10_Witness ==
    /\ cls_called
    /\ ~text_tag.kw
    /\ Len(text_content) = 500
    /\ opportunity = <<>>

\* the kinds of outcome in which the fetch or the extraction of a url failed
FetchFailKinds == {"fetch_none", "fetch_raises", "extract_none", "extract_raises"}

\* C11: when the provider returns no result for every query and the failsafe
\* list is [A, B], the candidates are A and B, the run is never aborted and
\* never ends by an exception, it reaches its end, and when the page of A
\* gave a text of 50 characters holding "grant" and the fetch of B failed,
\* the ranked output is exactly one opportunity, for A, with score 7.
C11_EndToEndFailsafe ==
    /\ [](pc \notin {"raised", "aborted"})
    /\ [](pc \in {"discovered", "gathering", "processed", "done"} =>
            seed_urls = {FAILSAFE_URLS[1], FAILSAFE_URLS[2]})
    /\ [](( /\ pc = "done"
            /\ task[FAILSAFE_URLS[1]].kind = "text"
            /\ task[FAILSAFE_URLS[1]].page = 1
            /\ task[FAILSAFE_URLS[2]].kind \in FetchFailKinds ) =>
            /\ Len(final_opportunities) = 1
            /\ final_opportunities[1].source_url = FAILSAFE_URLS[1]
            /\ final_opportunities[1].trust_score = 7)
    /\ <>(pc = "done")

\* C11 witness: the run ended, the page of A held "grant" in 50 characters,
\* the fetch of B raised, and the output is the one opportunity for A
C11_Witness ==
    /\ pc = "done"
    /\ issued = 1..NumQueries
    /\ Len(PageTexts[1]) = 50
    /\ task[FAILSAFE_URLS[1]].kind = "text"
    /\ task[FAILSAFE_URLS[1]].page = 1
    /\ task[FAILSAFE_URLS[2]].kind = "fetch_raises"
    /\ Len(final_opportunities) = 1
    /\ final_opportunities[1].source_url = FAILSAFE_URLS[1]
    /\ final_opportunities[1].trust_score = 7

\* whether discovery found no url and the failsafe list is empty
DiscoveryExhausted == all_links = {} /\ failsafe_urls = <<>>

\* C12: the run is aborted only when discovery found no url and the failsafe
\* list is empty, and then no fetch task was made and nothing was output; in
\* every other case discover_seed_urls returns a non-empty set, the step of
\* main that follows is enabled and the run is in the fan-out or past it with
\* one task per candidate; the run never ends by an exception.
C12_AbortOnlyWhenExhausted ==
    /\ pc # "raised"
    /\ pc = "aborted" =>
          /\ DiscoveryExhausted
          /\ seed_urls = {}
          /\ tasks = <<>> /\ task = <<>>
          /\ all_processed_opps = <<>> /\ final_opportunities = <<>>
    /\ pc = "discovered" =>
          /\ ENABLED StartFanOut
          /\ seed_urls = {} <=> DiscoveryExhausted
    /\ pc \in {"gathering", "processed", "done"} =>
          /\ ~DiscoveryExhausted
          /\ seed_urls # {}
          /\ DOMAIN task = seed_urls

\* C12 witness: every query ran, none gave a url that passes the filter, the
\* failsafe list is empty, and the run is aborted with no task made
C12_Witness ==
    /\ pc = "aborted"
    /\ issued = 1..NumQueries
    /\ all_links = {}
    /\ failsafe_urls = <<>>
    /\ task = <<>>
    /\ final_opportunities = <<>>

\* C13: when discovery has run every query, each query the Query Expander
\* returned, seed or derived, was issued to the search provider.
C13_ExpandedQueriesIssued ==
    (exp_pc = "returned" /\ pc = "discovered" /\ qi > NumQueries) =>
        \A q \in returned : \E i \in issued : SEARCH_QUERY_TEXTS[i] = q

\* expanded_queries after the tasks of the seeds from place i on got their
\* answers one after the other in the order of the seeds
RECURSIVE MergeInSeedOrder(_, _, _)
MergeInSeedOrder(expanded, answers, i) ==
    IF i > Len(answers) THEN expanded
    ELSE MergeInSeedOrder(FetchRelated(answers[i], expanded).expanded, answers, i + 1)

\* C15: for fixed seeds and fixed answers per seed, the set expand_queries
\* returns is the same for every order in which the tasks end: it is the set
\* that the order of the seeds gives.
C15_MergeOrderIndependent ==
    exp_pc = "returned" =>
        returned = MergeInSeedOrder(SetOf(initial_queries), related, 1)

\* where main is once process_links_with_ai has made its tasks
FanOutOrLater == {"gathering", "raised", "processed", "done"}

\* C16: no fetch task exists before discover_seed_urls has returned; from the
\* fan-out on there is one task per candidate url; seed_urls is assigned only
\* by the return of discover_seed_urls; and once the tasks are made no query
\* is issued and neither the candidates nor the urls being fetched change.
C16_PhasesDoNotOverlap ==
    /\ [](pc \notin FanOutOrLater => tasks = <<>> /\ task = <<>>)
    /\ [](pc \in FanOutOrLater =>
            /\ DOMAIN task = seed_urls
            /\ SetOf(tasks) = seed_urls
            /\ Len(tasks) = Cardinality(seed_urls))
    /\ [][seed_urls' # seed_urls => pc = "searched" /\ pc' = "discovered"]_vars
    /\ [][(pc \in FanOutOrLater) =>
            ( /\ pc' \in FanOutOrLater
              /\ issued' = issued
              /\ all_links' = all_links
              /\ seed_urls' = seed_urls
              /\ tasks' = tasks
              /\ DOMAIN task' = DOMAIN task )]_vars

\* C16 witness: two urls came from the search, the fan-out is under way with
\* one fetch ended and the other not, and the tasks are those of the two urls
C16_Witness ==
    /\ pc = "gathering"
    /\ issued # {}
    /\ seed_urls = {LiveA, LiveB}
    /\ DOMAIN task = seed_urls
    /\ task[LiveA].status = "done"
    /\ task[LiveB].status = "fetching"

\* the urls whose task returned an opportunity
UrlsWithResult == { u \in DOMAIN task : task[u].value # None }

\* C17: process_links_with_ai makes a task for every candidate url before it
\* awaits any; it returns only after every task has ended, never by an
\* exception, with the result of every task that gave one; a task that has
\* ended keeps its result whatever the others do; and when every fetch
\* returns or fails, process_links_with_ai returns.
C17_IssueAllAwaitAll ==
    /\ [](pc # "raised")
    /\ [][(pc = "discovered" /\ pc' = "gathering") =>
            ( /\ DOMAIN task' = seed_urls
              /\ \A u \in seed_urls : task'[u].status = "fetching" )]_vars
    /\ [](pc = "processed" =>
            /\ \A u \in seed_urls : task[u].status = "done"
            /\ Len(all_processed_opps) = Cardinality(UrlsWithResult)
            /\ \A u \in UrlsWithResult :
                  \E i \in 1..Len(all_processed_opps) :
                      all_processed_opps[i] = task[u].value[1])
    /\ [][\A u \in DOMAIN task :
            task[u].status = "done" => (u \in DOMAIN task' /\ task'[u] = task[u])]_vars
    /\ (pc = "gathering") ~> (pc = "processed")

\* C17 witness: of two tasks the first raised in its fetch and the second
\* gave a low-confidence opportunity, which is the one result returned
C17_Witness ==
    /\ pc = "processed"
    /\ Len(tasks) = 2
    /\ task[tasks[1]].kind = "fetch_raises"
    /\ task[tasks[2]].kind = "text"
    /\ task[tasks[2]].page = 2
    /\ all_processed_opps = task[tasks[2]].value

\* the hrefs of the results of the queries that were issued and answered
ReturnedHrefs ==
    UNION { SetOf(provider[q].hrefs) : q \in { r \in issued : ~provider[r].raises } }

\* C18: the set discover_seed_urls returns is either the set of the urls
\* that a search result held and that pass _is_valid_link, each once however
\* many queries returned it, or, when there is no such url, the set of the
\* failsafe urls; it never holds urls of both kinds.
C18_CandidatesAreFilteredOrFailsafe ==
    pc = "discovered" =>
        LET live == { u \in ReturnedHrefs : _is_valid_link(u) }
        IN  /\ live # {} =>
                  /\ seed_urls = live
                  /\ seed_urls \cap SetOf(failsafe_urls) = {}
            /\ live = {} => seed_urls = SetOf(failsafe_urls)
            /\ \A u \in seed_urls :
                  \/ u \in ReturnedHrefs /\ _is_valid_link(u)
                  \/ \E i \in 1..Len(failsafe_urls) : failsafe_urls[i] = u

\* C18 witness: two queries returned the same url beside urls the filter
\* rejects, the failsafe list is not empty, and the url is the one candidate
C18_Witness ==
    /\ pc = "discovered"
    /\ failsafe_urls # <<>>
    /\ provider[1].hrefs = <<LiveA>>
    /\ provider[2].hrefs = <<LiveA>>
    /\ provider[3].hrefs = <<Excluded, None, NoScheme>>
    /\ issued = 1..NumQueries
    /\ seed_urls = {LiveA}

\* the place of the first query whose search raises, NumQueries + 1 if none
FirstRaising ==
    IF \E q \in 1..NumQueries : provider[q].raises
    THEN CHOOSE q \in 1..NumQueries :
             /\ provider[q].raises
             /\ \A r \in 1..(q - 1) : ~provider[r].raises
    ELSE NumQueries + 1

\* the urls that pass the filter among the results of the queries ahead of
\* the first one that raises
CollectedBeforeRaise ==
    { u \in UNION { SetOf(provider[q].hrefs) : q \in 1..(FirstRaising - 1) } :
        _is_valid_link(u) }

\* C19: when the search raises after urls were collected, discover_seed_urls
\* returns exactly the urls collected until then and none of the failsafe
\* urls; it returns the failsafe urls only when nothing was collected.
C19_RaiseKeepsCollectedUrls ==
    pc = "discovered" =>
        /\ issued = 1..(IF FirstRaising <= NumQueries THEN FirstRaising ELSE NumQueries)
        /\ CollectedBeforeRaise # {} =>
              /\ seed_urls = CollectedBeforeRaise
              /\ \A i \in 1..Len(failsafe_urls) : failsafe_urls[i] \notin seed_urls
        /\ CollectedBeforeRaise = {} => seed_urls = SetOf(failsafe_urls)

\* C19 witness: the first query gave a url, the second raised, the failsafe
\* list is not empty, and the url of the first query is what is returned
C19_Witness ==
    /\ pc = "discovered"
    /\ failsafe_urls # <<>>
    /\ provider[1].hrefs = <<LiveA>>
    /\ provider[2].raises
    /\ issued = {1, 2}
    /\ seed_urls = {LiveA}

\* how often o occurs in the list opps
Count(opps, o) == Cardinality({ i \in 1..Len(opps) : opps[i] = o })

\* C20: the list process_links_with_ai returns holds at most one opportunity
\* per candidate url, each with a candidate url as its source_url and a
\* trust score within 0..10, and the ranked output holds no opportunity more
\* often than that list does.
C20_ResultsWithinCandidates ==
    /\ pc \in {"processed", "done"} =>
          /\ Len(all_processed_opps) <= Cardinality(seed_urls)
          /\ \A i \in 1..Len(all_processed_opps) :
                /\ all_processed_opps[i].source_url \in seed_urls
                /\ all_processed_opps[i].trust_score \in 0..10
                /\ \A j \in 1..Len(all_processed_opps) :
                      all_processed_opps[i].source_url = all_processed_opps[j].source_url
                          => i = j
    /\ pc = "done" =>
          \A i \in 1..Len(final_opportunities) :
              Count(final_opportunities, final_opportunities[i])
                  <= Count(all_processed_opps, final_opportunities[i])

\* C20 witness: two candidates gave an opportunity each, of score 7 and of
\* score 3, and the ranked output holds the first of them only
C20_Witness ==
    /\ pc = "done"
    /\ Cardinality(seed_urls) = 2
    /\ Len(all_processed_opps) = 2
    /\ { all_processed_opps[i].trust_score : i \in 1..2 } = {3, 7}
    /\ Len(final_opportunities) = 1
    /\ final_opportunities[1].trust_score = 7

=============================================================================
